---- MODULE Spec2Model ----
(***************************************************************************)
(* A model of the decision/scoring core of the cybersecurity assistant:     *)
(*   ai_agent/agent_decision.py   AgentDecision.route_and_decide            *)
(*   ai_agent/url_analyzer.py     UrlAnalyzer._request / scan_url           *)
(*   ai_agent/password_checker.py PasswordChecker.check_password            *)
(*   ai_agent/text_detector.py    TextDetector.analyze_text                 *)
(*   ai_agent/utils.py            simple_phish_score                        *)
(* One call of route_and_decide is followed from the request body to the    *)
(* returned value or the raised exception.  The external services answer    *)
(* nondeterministically.  The remote breach lookup of the password          *)
(* analyzer, _hibp_k_anonymity, and its process-wide cache are modelled     *)
(* with concurrent lookups in a specification of their own (SpecHibp).      *)
(* The endpoint around the core, main.py agent_route, with the events       *)
(* table, the memory store and the notifiers, is followed in SpecAgent;     *)
(* responders/db_logger.py and memory/knowledge_store.py are also           *)
(* exercised on their own (SpecDb, SpecMem).                                *)
(***************************************************************************)
EXTENDS Integers, Sequences, FiniteSets, TLC

VARIABLES
    env,        \* process configuration: [enable_hibp, lm, vt_key]
    body,       \* the request body handed to route_and_decide
    pc,         \* position of route_and_decide / scan_url
    called,     \* analyzers route_and_decide has invoked
    attempts,   \* _request local: retry counter
    backoff,    \* _request local: current backoff (seconds)
    hist,       \* _request: failures seen in the current call, with the delay slept
    nreq,       \* _request: HTTP requests issued in the current call
    last,       \* status of the most recent HTTP response
    req_exc,    \* exception raised by the most recent _request call, or "none"
    submit,     \* scan_url local: submit response
    analysis,   \* scan_url local: last poll response
    polls,      \* scan_url: polls issued
    url_obj,    \* scan_url local: object the findings are computed from
    exc,        \* exception raised by route_and_decide, or "none"
    result,     \* value returned by route_and_decide
    hibp,       \* check_password local: hibp_count (what the lookup returned)
    now,        \* the clock, in seconds (counted up to MaxTime)
    cache,      \* _HIBP_CACHE: prefix -> entry
    thr,        \* the threads running _hibp_k_anonymity
    fetched,    \* history: prefix -> latest "now" of a successful fetch
    td,         \* analyze_text: what the call invoked and how the
                \* language-model call ended
    apc,        \* position of agent_route
    bg,         \* position of the background task _bg_send_responders
    db,         \* DBLogger: the events table and its AUTOINCREMENT sequence
    got,        \* what the last read or delete of the events table returned
    logged,     \* history: the decisions handed to log_event, by returned id
    mem,        \* KnowledgeStore.data
    disk,       \* the file of the KnowledgeStore
    seen,       \* history: the events handed to remember_event, in order
    notified,   \* the notifier invocations made, with their payload
    response    \* what agent_route answered the caller

vars == <<env, body, pc, called, attempts, backoff, hist, nreq, last, req_exc,
          submit, analysis, polls, url_obj, exc, result, hibp, now, cache,
          thr, fetched, td, apc, bg, db, got, logged, mem, disk, seen,
          notified, response>>

\* agent_route and its collaborators
avars == <<apc, bg, db, got, logged, mem, disk, seen, notified, response>>

\* what one call of route_and_decide leaves alone: the breach-lookup cache,
\* the lookups of other threads, and the caller's collaborators
hvars == <<cache, thr, fetched, avars>>

-----------------------------------------------------------------------------
(* Bounds of the model *)

MaxVotes == 8
MaxPwdLen == 14
MaxBreach == 2
MaxUrls == 7
MaxExcl == 6
MaxTime == 3
MaxRows == 3
MaxEvents == 8
MaxLimit == 2
CacheTtl == 2
Deadline == 2

-----------------------------------------------------------------------------
(* Small helpers *)

Min(a, b) == IF a < b THEN a ELSE b
Max(a, b) == IF a > b THEN a ELSE b

\* max(0, min(100, x))
Clamp(x) == Max(0, Min(100, x))

\* the integer nearest to num/den (den > 0), ties to the even neighbour:
\* Python's round() on an exactly represented value
RoundHalfEven(num, den) ==
    LET fl  == num \div den
        rem == num % den
    IN  IF 2 * rem < den THEN fl
        ELSE IF 2 * rem > den THEN fl + 1
        ELSE IF fl % 2 = 0 THEN fl ELSE fl + 1

-----------------------------------------------------------------------------
(* ai_agent/url_analyzer.py : constants *)

InitBackoff == 1
MaxBackoff == 16
RateLimitRetries == 6
NetworkRetries == 5
MaxPolls == 12
PollInterval == 1

\* the number of seconds a numeric Retry-After header of the service asks for
RetryAfterSecs == 20

-----------------------------------------------------------------------------
(* ai_agent/url_analyzer.py : _request, one pass of the retry loop *)

\* what client.request() produced: a status class, or "net" for a raised
\* httpx.RequestError / asyncio.TimeoutError
Outcomes == {"2xx", "429", "4xx", "5xx", "net"}

\* the Retry-After header of a 429: absent, a number of seconds, an
\* HTTP-date (which float() cannot parse), or one of the spellings float()
\* reads as infinity ("inf", "Infinity", "1e999")
RetryAfterKinds == {"none", "secs", "date", "inf"}

\* float("inf"): a delay no clock value reaches
Forever == 2 ^ 30

\* the loop body with every 4xx handled like a transient failure
StatusClassRetry4xx(o) ==
    IF o = "429" THEN "rate_limited"
    ELSE IF o = "5xx" THEN "http_error"
    ELSE IF o \in {"net", "4xx"} THEN "network_error"
    ELSE "success"

\* the branch of the loop body an outcome takes: 429 is handled in place,
\* raise_for_status() raises HTTPStatusError for any other 4xx and for 5xx
StatusClass(o) ==
    IF o = "429" THEN "rate_limited"
    ELSE IF o \in {"4xx", "5xx"} THEN "http_error"
    ELSE IF o = "net" THEN "network_error"
    ELSE "success"

\* wait = float(retry_after) if retry_after else backoff
RateLimitWait(ra, b) ==
    IF ra = "secs" THEN RetryAfterSecs ELSE IF ra = "inf" THEN Forever ELSE b

\* backoff = min(backoff * 2, max_backoff)
RateLimitBackoff(b) == Min(b * 2, MaxBackoff)

\* if attempts > 6: resp.raise_for_status()
RateLimitExhausted(a) == a > RateLimitRetries

\* if attempts > 5: raise
NetworkExhausted(a) == a > NetworkRetries

\* await asyncio.sleep(min(backoff, max_backoff))
NetworkWait(b) == Min(b, MaxBackoff)

\* backoff *= 2
NetworkBackoff(b) == b * 2

\* the clock after "await asyncio.sleep(d)" entered at time t
Sleep(t, d) == Min(t + d, MaxTime)

\* What the scanning service answers.  Without an API key the client sends
\* no x-apikey header (headers = {}) and no request is answered with success.
ServiceOutcomes(key) == IF key THEN Outcomes ELSE Outcomes \ {"2xx"}

-----------------------------------------------------------------------------
(* ai_agent/url_analyzer.py : scan_url, the normalised findings *)

\* a JSON reply of the scanning service, reduced to what scan_url reads:
\* data.id, data.attributes.status, data.attributes.last_analysis_stats
\* as <<malicious, suspicious, harmless, undetected>> (all 0 when missing)
\* "present" is the truth value Python gives the object: None and the empty
\* JSON object {} are both false and carry nothing.
NoResp == [present |-> FALSE, id |-> FALSE, completed |-> FALSE,
           stats |-> <<0, 0, 0, 0>>]

Resp(id, completed, stats) ==
    [present |-> TRUE, id |-> id, completed |-> completed, stats |-> stats]

\* round(risk * 100) at an exact half k + 1/2.  risk is a binary64 quotient
\* and risk * 100 a binary64 product, so the half is reproduced exactly
\* (and Python's round() goes to the even neighbour) except at two values:
\* 0.545 * 100 evaluates above 54.5 and 0.575 * 100 below 57.5.
BinaryTie(k) ==
    IF k = 54 THEN 55
    ELSE IF k = 57 THEN 57
    ELSE IF k % 2 = 0 THEN k ELSE k + 1

\* the score with the two weights exchanged:
\* risk = (malicious * 0.5 + suspicious * 1.0) / total
VtRiskScoreWeightsSwapped(t) ==
    LET sum   == t[1] + t[2] + t[3] + t[4]
        total == IF sum > 0 THEN sum ELSE 1
    IN  Clamp(RoundHalfEven(100 * (t[1] + 2 * t[2]), 2 * total))

\* risk = (malicious * 1.0 + suspicious * 0.5) / total
\* risk_score = int(max(0, min(100, round(risk * 100))))
VtRiskScore(t) ==
    LET sum   == t[1] + t[2] + t[3] + t[4]
        total == IF sum > 0 THEN sum ELSE 1
        num   == 100 * (2 * t[1] + t[2])
        den   == 2 * total
        fl    == num \div den
        rem   == num % den
    IN  Clamp(IF 2 * rem < den THEN fl
              ELSE IF 2 * rem > den THEN fl + 1
              ELSE BinaryTie(fl))

\* the dict scan_url returns, computed from url_obj
ScanFindings(obj) ==
    [malicious_votes  |-> obj.stats[1],
     suspicious_votes |-> obj.stats[2],
     harmless_votes   |-> obj.stats[3],
     undetected       |-> obj.stats[4],
     risk_score       |-> VtRiskScore(obj.stats)]

\* the fallback taken from the submit response alone
FallbackSubmitOnly(an, sub) == sub

\* url_obj = analysis or submit
Fallback(an, sub) == IF an.present THEN an ELSE sub

\* the polling loop left after its first poll
AfterPollFirst(completed, n) == "fetch"

\* the polling loop without the cap of range(max_polls)
AfterPollNoCap(completed, n) == IF completed THEN "fetch" ELSE "poll"

\* if analysis_id: for i in range(max_polls): ...
AfterSubmit(id) == IF id /\ MaxPolls > 0 THEN "poll" ELSE "fetch"

\* after the n-th poll: "if status == 'completed': break", or the range ends
AfterPoll(completed, n) ==
    IF completed \/ n >= MaxPolls THEN "fetch" ELSE "poll"

-----------------------------------------------------------------------------
(* ai_agent/password_checker.py : check_password *)

\* A password, reduced to what check_password reads of it: its length, the
\* character classes it contains, whether its lower-cased form is in the
\* common-password set and whether its digest is in the local breach set.
\* A character that is a letter without case (alnum, neither lower nor
\* upper nor digit) adds to the length and to no class.
ClassCount(p) ==
    (IF p.lower THEN 1 ELSE 0) + (IF p.upper THEN 1 ELSE 0)
    + (IF p.digit THEN 1 ELSE 0) + (IF p.symbol THEN 1 ELSE 0)

Passwords ==
    { p \in [len : 0..MaxPwdLen, lower : BOOLEAN, upper : BOOLEAN,
             digit : BOOLEAN, symbol : BOOLEAN, common : BOOLEAN,
             local : BOOLEAN] :
        /\ ClassCount(p) <= p.len
        /\ (p.len = 0 => ~p.common) }

\* pool of _entropy_bits
Pool(p) ==
    (IF p.lower THEN 26 ELSE 0) + (IF p.upper THEN 26 ELSE 0)
    + (IF p.digit THEN 10 ELSE 0) + (IF p.symbol THEN 32 ELSE 0)

\* math.log2(pool) in millionths of a bit
Log2Micro(pool) ==
    CASE pool = 10 -> 3321928
      [] pool = 26 -> 4700440
      [] pool = 32 -> 5000000
      [] pool = 36 -> 5169925
      [] pool = 42 -> 5392317
      [] pool = 52 -> 5700440
      [] pool = 58 -> 5857981
      [] pool = 62 -> 5954196
      [] pool = 68 -> 6087463
      [] pool = 84 -> 6392317
      [] pool = 94 -> 6554589

\* _entropy_bits, in millionths of a bit: 0.0 if pool == 0,
\* else math.log2(pool) * len(pwd)
EntropyMicro(p) == IF Pool(p) = 0 THEN 0 ELSE Log2Micro(Pool(p)) * p.len

\* the breach count _hibp_k_anonymity can report: -1 on error, else a count
HibpCounts == (0..MaxBreach) \cup {0 - 1}

\* the resolution with a local hit reported before the remote result
PwnedCountLocalFirst(enable_hibp, hibp_count, local) ==
    IF local THEN 1
    ELSE IF enable_hibp THEN hibp_count
    ELSE 0

\* pwned_count: prefer HIBP if enabled and successful, else local
PwnedCount(enable_hibp, hibp_count, local) ==
    IF enable_hibp /\ hibp_count # 0 - 1 THEN hibp_count
    ELSE IF enable_hibp /\ hibp_count = 0 - 1 THEN 0 - 1
    ELSE IF local THEN 1 ELSE 0

\* the label with "weak" and "reasonable" exchanged
StrengthLabelsSwapped(common, e) ==
    IF common THEN "very_weak"
    ELSE IF e < 28 * 1000000 THEN "very_weak"
    ELSE IF e < 40 * 1000000 THEN "reasonable"
    ELSE IF e < 60 * 1000000 THEN "weak"
    ELSE "strong"

\* strength label
Strength(common, e) ==
    IF common THEN "very_weak"
    ELSE IF e < 28 * 1000000 THEN "very_weak"
    ELSE IF e < 40 * 1000000 THEN "weak"
    ELSE IF e < 60 * 1000000 THEN "reasonable"
    ELSE "strong"

\* round(100 - (entropy_bits / 80.0 * 100)), e in millionths of a bit
EntropyRisk(e) == RoundHalfEven(400000000 - 5 * e, 4000000)

\* risk_score with the common-password floor applied as a cap
PwRiskScoreCapped(pwned, e, common) ==
    IF pwned > 0 THEN 100
    ELSE IF pwned = 0
         THEN IF common THEN Min(Clamp(EntropyRisk(e)), 85)
              ELSE Clamp(EntropyRisk(e))
    ELSE 70

\* risk_score without the clamp to [0, 100]
PwRiskScoreUnclamped(pwned, e, common) ==
    IF pwned > 0 THEN 100
    ELSE IF pwned = 0
         THEN IF common THEN Max(EntropyRisk(e), 85) ELSE EntropyRisk(e)
    ELSE 70

\* risk_score of check_password
PwRiskScore(pwned, e, common) ==
    IF pwned > 0 THEN 100
    ELSE IF pwned = 0
         THEN IF common THEN Max(Clamp(EntropyRisk(e)), 85)
              ELSE Clamp(EntropyRisk(e))
    ELSE 70

\* compromised of check_password
PwCompromised(pwned) ==
    IF pwned > 0 THEN "True" ELSE IF pwned = 0 THEN "False" ELSE "None"

\* the dict check_password returns; entropy_bits is round(entropy_bits, 2),
\* held in hundredths of a bit
CheckPassword(p, enable_hibp, hibp_count) ==
    LET pwned == PwnedCount(enable_hibp, hibp_count, p.local)
        e     == EntropyMicro(p)
    IN  [entropy_bits    |-> RoundHalfEven(e, 10000),
         pwned_count     |-> pwned,
         compromised     |-> PwCompromised(pwned),
         common_password |-> p.common,
         strength        |-> Strength(p.common, e),
         risk_score      |-> PwRiskScore(pwned, e, p.common)]

-----------------------------------------------------------------------------
(* ai_agent/password_checker.py : _hibp_k_anonymity and _HIBP_CACHE *)

\* upper-case hex SHA-1 digests, split as the lookup splits them into
\* sha1[:5] and sha1[5:] (the suffixes are shortened to five characters)
Prefixes == {"5BAA6", "7C4A8"}
Suffixes == {"1E4C9", "D09CA"}
Digests == [prefix : Prefixes, suffix : Suffixes]
NoDigest == [prefix |-> "", suffix |-> ""]

\* the threads of the server's pool that run the synchronous endpoint
\* analyze_password, and with it check_password and the lookup
Threads == {"t1", "t2"}

\* The text of a 200 reply of the range endpoint asked for the prefix "of":
\* lines SUFFIX:COUNT.  It lists the suffix "hit" with the count MaxBreach
\* and no other suffix of Suffixes.
RangeBodies(path) == [of : {path}, hit : Suffixes]
NoBody == [of |-> "", hit |-> ""]

\* the loop over body.splitlines(): int(count) of the line whose suffix
\* equals the digest's, 0 when there is none
CountIn(b, suffix) == IF b.hit = suffix THEN MaxBreach ELSE 0

\* the request path with the whole digest in it
RangeRequestFull(d) == d.prefix \o d.suffix

\* url = f"https://api.pwnedpasswords.com/range/{prefix}": what follows
\* /range/ in the only request the lookup sends
RangeRequest(d) == d.prefix

\* one cache slot shared by every prefix
CacheKeyShared(d) == "5BAA6"

\* _HIBP_CACHE.get(prefix) / _HIBP_CACHE[prefix]
CacheKey(d) == d.prefix

\* _HIBP_CACHE = {} ; an entry is {"ts": now, "body": body}
NoEntry == [present |-> FALSE, ts |-> 0, body |-> NoBody]
Entry(ts, b) == [present |-> TRUE, ts |-> ts, body |-> b]
EmptyCache == [p \in Prefixes |-> NoEntry]

\* if cached and (now - cached["ts"]) < _HIBP_CACHE_TTL
Fresh(e, t) == e.present /\ (t - e.ts) < CacheTtl

\* A thread: "idle" outside the lookup, "fetch" while requests.get is in
\* flight, "done" when the lookup has returned ret.  t0 is the local "now"
\* (kept while the request is in flight), sent the request path sent by
\* the lookup ("none": no request), used the body the count was read from.
Idle == [pc |-> "idle", digest |-> NoDigest, t0 |-> 0, sent |-> "none",
         used |-> NoBody, ret |-> 0]

-----------------------------------------------------------------------------
(* ai_agent/utils.py : simple_phish_score ; ai_agent/text_detector.py *)

SuspiciousPhrases == 6

\* A text, reduced to what the detector reads of it: whether it is empty or
\* only whitespace, the number of URLs extract_urls finds, whether any
\* phishing keyword occurs, the number of "!" and the number of
\* suspicious phrases that occur.
NoFeatures == [blank |-> TRUE, nurls |-> 0, kw |-> FALSE, excl |-> 0, sens |-> 0]

Texts ==
    {NoFeatures} \cup
    [blank : {FALSE}, nurls : 0..MaxUrls, kw : BOOLEAN, excl : 0..MaxExcl,
     sens : 0..SuspiciousPhrases]

\* the score with the exclamation marks uncapped
SimplePhishScoreNoExclCap(t) ==
    Clamp((IF t.nurls > 0 THEN Min(40, 15 + 5 * (t.nurls - 1)) ELSE 0)
          + (IF t.kw THEN 30 ELSE 0)
          + t.excl * 2
          + 10 * t.sens)

\* simple_phish_score
SimplePhishScore(t) ==
    Clamp((IF t.nurls > 0 THEN Min(40, 15 + 5 * (t.nurls - 1)) ELSE 0)
          + (IF t.kw THEN 30 ELSE 0)
          + (IF t.excl > 0 THEN Min(10, t.excl * 2) ELSE 0)
          + 10 * t.sens)

\* the fallback label with the cut of the language-model path (40)
HeuristicLabelCut40(h) ==
    IF h >= 70 THEN "malicious" ELSE IF h >= 40 THEN "suspicious" ELSE "benign"

\* label of the heuristic fallback
HeuristicLabel(h) ==
    IF h >= 70 THEN "malicious" ELSE IF h >= 35 THEN "suspicious" ELSE "benign"

\* What the language-model call produced.
\*   kind "error": the service call raised, or the reply carries no
\*                 choices[0].message.content
\*   kind "unparsable": the text between the first "{" and the last "}" is
\*                 not JSON (json.loads raises)
\*   kind "json" : a JSON object.  label is its "label" ("other": a string
\*                 that is none of the three labels, or no label at all;
\*                 "(no string)": a number or null).  stype tells what its
\*                 "risk_score" is: "int" an integer, "frac" a number with a
\*                 fraction (85.7), "numstr" a string int() reads ("85"),
\*                 "text" anything int() raises on ("high", null); score is
\*                 the integer int() gives.
\*   kind "plain": no JSON object; label is the keyword found in the reply
\*                 ("" if none), score the first number in it (-1 if none)
LmLabels == {"malicious", "suspicious", "benign", "other"}
LmScores == {0 - 5, 0, 45, 70, 100, 250}
LmNumbers == {0 - 1, 7, 85, 999}
ScoreTypes == {"int", "frac", "numstr", "text"}

LmReplies ==
    [kind : {"error", "unparsable"}, label : {""}, score : {0},
     stype : {"int"}]
    \cup [kind : {"json"}, label : LmLabels \cup {"(no string)"},
          score : LmScores, stype : ScoreTypes]
    \cup [kind : {"plain"}, label : {"malicious", "suspicious", ""},
          score : LmNumbers, stype : {"int"}]

\* no call was made
NoReply == [kind |-> "none", label |-> "", score |-> 0, stype |-> "int"]

\* How _call_openai ends on a reply.  It returns a dict ("ok", or
\* "converted" when int() made an integer of a risk_score that was none), or
\* one of its statements raises: the service call ("error"), json.loads
\* ("unparsable"), parsed.get("label", "").lower() ("badlabel") or
\* int(parsed.get("risk_score", 0)) ("badscore").
LmOutcome(r) ==
    IF r.kind \in {"error", "unparsable", "none"} THEN r.kind
    ELSE IF r.kind = "json" /\ r.label = "(no string)" THEN "badlabel"
    ELSE IF r.kind = "json" /\ r.stype = "text" THEN "badscore"
    ELSE IF r.kind = "json" /\ r.stype # "int" THEN "converted"
    ELSE "ok"

\* oa = await self._call_openai(text) returned
LmReturns(r) == LmOutcome(r) \in {"ok", "converted"}

\* _call_openai: the parsed dict {label, risk_score}
CallOpenai(r) ==
    IF r.kind = "json"
    THEN LET rs == Clamp(r.score)
         IN  [label |-> IF r.label \in {"malicious", "suspicious", "benign"}
                        THEN r.label
                        ELSE IF rs >= 70 THEN "malicious"
                        ELSE IF rs >= 40 THEN "suspicious" ELSE "benign",
              risk_score |-> rs]
    ELSE [label |-> IF r.label = "" THEN "benign" ELSE r.label,
          risk_score |-> Clamp(IF r.score = 0 - 1 THEN 50 ELSE r.score)]

\* What a call of analyze_text invoked: the heuristic scorer
\* (extract_urls, simple_phish_score), the language-model call, and how
\* that call ended.
NoTrace == [scored |-> FALSE, lm_called |-> FALSE, outcome |-> "none"]

Trace(t, lm, r) ==
    IF t.blank THEN NoTrace
    ELSE [scored |-> TRUE, lm_called |-> lm,
          outcome |-> IF lm THEN LmOutcome(r) ELSE "none"]

\* analyze_text without the test for an empty text
AnalyzeTextNoShortCircuit(t, lm, r) ==
    LET h == SimplePhishScore(t)
    IN  IF lm /\ LmReturns(r)
        THEN [label |-> CallOpenai(r).label,
              risk_score |-> Clamp(CallOpenai(r).risk_score),
              nurls |-> t.nurls, heuristic_score |-> h, reason |-> "lm"]
        ELSE [label |-> HeuristicLabel(h), risk_score |-> h,
              nurls |-> t.nurls, heuristic_score |-> h,
              reason |-> "heuristic"]

\* analyze_text: lm is OPENAI_AVAILABLE and self.openai_key
AnalyzeText(t, lm, r) ==
    IF t.blank
    THEN [label |-> "benign", risk_score |-> 0, nurls |-> 0,
          heuristic_score |-> 0, reason |-> "empty input"]
    ELSE LET h == SimplePhishScore(t)
         IN  IF lm /\ LmReturns(r)
             THEN [label |-> CallOpenai(r).label,
                   risk_score |-> Clamp(CallOpenai(r).risk_score),
                   nurls |-> t.nurls, heuristic_score |-> h, reason |-> "lm"]
             ELSE [label |-> HeuristicLabel(h), risk_score |-> h,
                   nurls |-> t.nurls, heuristic_score |-> h,
                   reason |-> "heuristic"]

-----------------------------------------------------------------------------
(* ai_agent/agent_decision.py : route_and_decide *)

KnownTypes == {"url", "password", "text"}

EmptyPwd == [len |-> 0, lower |-> FALSE, upper |-> FALSE, digit |-> FALSE,
             symbol |-> FALSE, common |-> FALSE, local |-> FALSE]

\* Request bodies.  type "None" is a body without a "type" key; a missing
\* password or text is the empty one (pwd or "", not text).
UrlBodies ==
    [type : {"url"}, url : {"u"}, pwd : {EmptyPwd}, text : {NoFeatures}]
PasswordBodies ==
    [type : {"password"}, url : {"None"}, pwd : Passwords, text : {NoFeatures}]
TextBodies ==
    [type : {"text"}, url : {"None"}, pwd : {EmptyPwd}, text : Texts]
UnknownBodies ==
    [type : {"image", "None"}, url : {"None", "u"},
     pwd : {p \in Passwords : p.len <= 1 /\ ~p.local}, text : {NoFeatures}]

Bodies == UrlBodies \cup PasswordBodies \cup TextBodies \cup UnknownBodies

NoResult == [none |-> TRUE]

\* url branch with the alert threshold exclusive
UrlActionStrict(score) ==
    IF score > 50 THEN "alert" ELSE IF score >= 20 THEN "log" ELSE "ignore"

\* url branch: the action
UrlAction(score) ==
    IF score >= 50 THEN "alert" ELSE IF score >= 20 THEN "log" ELSE "ignore"

UrlDecision(b, f) ==
    [type |-> "url", input |-> b.url, analyzer |-> f,
     combined_score |-> f.risk_score, action |-> UrlAction(f.risk_score),
     reason |-> [text |-> "URL risk_score", score |-> f.risk_score]]

\* password branch: the action
PasswordAction(f) ==
    IF f.compromised = "True" THEN "alert"
    ELSE IF f.risk_score > 60 THEN "log" ELSE "ignore"

PasswordDecision(f) ==
    [type |-> "password", input |-> "None", analyzer |-> f,
     combined_score |-> f.risk_score, action |-> PasswordAction(f),
     reason |-> [text |-> "Password compromised",
                 compromised |-> f.compromised, entropy |-> f.entropy_bits]]

\* text branch: the action
TextAction(f) ==
    IF f.risk_score >= 60 \/ f.label = "malicious" THEN "alert"
    ELSE IF f.risk_score >= 30 THEN "log" ELSE "ignore"

TextDecision(f) ==
    [type |-> "text", input |-> "None", analyzer |-> f,
     combined_score |-> f.risk_score, action |-> TextAction(f),
     reason |-> [text |-> "Text label", label |-> f.label,
                 reason |-> f.reason]]

\* else branch answering with a decision to ignore
UnknownTypeAsIgnore(b) ==
    [type |-> b.type, input |-> "None", analyzer |-> [risk_score |-> 0],
     combined_score |-> 0, action |-> "ignore",
     reason |-> [text |-> "unknown type"]]

\* else branch
UnknownType(b) == [error |-> "unknown_type", body |-> b]

-----------------------------------------------------------------------------
(* responders/db_logger.py : DBLogger, the events table *)

\* Python's None where the model holds a record
PyNone == [none |-> TRUE]

\* d.get(k, default) on a dict held as a record
Get(d, k, default) == IF k \in DOMAIN d THEN d[k] ELSE default

\* get_last_events(limit: int = 20); "if limit <= 0: limit = 20"
DefaultLimit == 20

\* the score column with 50 taken for a score of 0
ScoreColumnOrFifty(d) ==
    LET cs == Get(d, "combined_score", 0)
    IN  IF cs # 0 THEN cs ELSE 50

\* decision.get("combined_score") or decision.get("score") or 0
\* (None and 0 are both false)
ScoreColumn(d) ==
    LET cs == Get(d, "combined_score", 0)
        sc == Get(d, "score", 0)
    IN  IF cs # 0 THEN cs ELSE IF sc # 0 THEN sc ELSE 0

\* json.loads(json.dumps(decision, default=str)): the values of a decision
\* are strings, integers, booleans, None and dicts of these with string
\* keys, which JSON gives back as they were
JsonData(d) == d

\* the row INSERT writes and _row_to_dict gives back (created_at left out);
\* a missing type or action is None, held as "None"
Row(id, d) ==
    [id |-> id, type |-> Get(d, "type", "None"),
     action |-> Get(d, "action", "None"), score |-> ScoreColumn(d),
     reason |-> Get(d, "reason", PyNone), data |-> JsonData(d)]

\* the table after _init_db: no rows; seq is the AUTOINCREMENT sequence
\* (the largest id ever given)
EmptyDb == [rows |-> <<>>, seq |-> 0]

\* log_event: the table after the INSERT; cur.lastrowid is its seq
LogEventDb(t, d) ==
    [rows |-> Append(t.rows, Row(t.seq + 1, d)), seq |-> t.seq + 1]

\* get_event: the row with that id, or None
GetEvent(t, id) ==
    IF \E i \in 1..Len(t.rows) : t.rows[i].id = id
    THEN t.rows[CHOOSE i \in 1..Len(t.rows) : t.rows[i].id = id]
    ELSE PyNone

\* get_last_events: ORDER BY id DESC LIMIT ?
GetLastEvents(t, limit) ==
    LET lim == IF limit <= 0 THEN DefaultLimit ELSE limit
        n   == Len(t.rows)
    IN  [i \in 1..Min(lim, n) |-> t.rows[n + 1 - i]]

\* delete_event: DELETE FROM events WHERE id = ?; returns rowcount > 0
DeleteEvent(t, id) ==
    [rows |-> SelectSeq(t.rows, LAMBDA r : r.id # id), seq |-> t.seq]

-----------------------------------------------------------------------------
(* memory/knowledge_store.py : KnowledgeStore *)

\* KnowledgeStore(file_path, short_term_limit: int = 30)
DefaultShortTermLimit == 30

StrengthLabels == {"very_weak", "weak", "reasonable", "strong"}

MemUrls == {"u"}

RECURSIVE Gcd(_, _)
Gcd(a, b) == IF b = 0 THEN a ELSE Gcd(b, a % b)

\* avg_risk_score, a binary64 number: the fraction num/den in lowest terms
\* it stands for, and whether the stored number is the binary64 next above
\* the one nearest to num/den
Avg(num, den, above) ==
    LET g == Gcd(num, den)
    IN  [num |-> num \div g, den |-> den \div g, above |-> above]

\* _init_store: the data of a fresh store
FreshData ==
    [short_term |-> <<>>, total_events |-> 0, avg_risk_score |-> Avg(0, 1, FALSE),
     top_malicious_urls |-> [u \in MemUrls |-> 0],
     password_weakness |-> [l \in StrengthLabels |-> 0]]

FreshStore(limit) == [short_term_limit |-> limit, data |-> FreshData]

\* short_term[-limit:] (limit >= 0): the last limit items, and for
\* limit = 0 the slice [-0:], which is the whole list
LastSlice(q, limit) ==
    IF limit = 0 THEN q ELSE SubSeq(q, Len(q) - limit + 1, Len(q))

\* Whether ((prev_avg * (n - 1)) + score) / n comes out one unit in the
\* last place above the binary64 nearest to the mean, evaluated in
\* binary64 for scores in {0, 70, 100} and n <= 10.  The product
\* prev_avg * (n - 1) is the exact sum of the earlier scores up to n = 7;
\* fl(450 / 7) * 7 is 450.00000000000006, and adding 0 keeps the excess
\* (56.25000000000001 for the mean 56.25), a larger score rounds it away.
MeanAbove(prev, n, score) ==
    LET sum == (prev.num * (n - 1)) \div prev.den
    IN  \/ n = 8 /\ sum = 450 /\ score = 0 /\ ~prev.above
        \/ n > 8 /\ score = 0 /\ prev.above

\* lt["avg_risk_score"] = ((prev_avg * (n - 1)) + score) / n
RunningMean(prev, n, score) ==
    Avg((prev.num * (n - 1)) + score * prev.den, prev.den * n,
        MeanAbove(prev, n, score))

\* _update_long_term
UpdateLongTerm(d, e) ==
    LET n        == d.total_events + 1
        score    == Get(e, "combined_score", 0)
        url      == Get(e, "input", "None")
        strength == Get(Get(e, "analyzer", PyNone), "strength", "unknown")
    IN  [d EXCEPT
           !.total_events = n,
           !.avg_risk_score = RunningMean(d.avg_risk_score, n, score),
           !.top_malicious_urls =
               IF Get(e, "type", "None") = "url" /\ url # "None"
               THEN [@ EXCEPT ![url] = @ + 1] ELSE @,
           !.password_weakness =
               IF Get(e, "type", "None") = "password"
                  /\ strength \in StrengthLabels
               THEN [@ EXCEPT ![strength] = @ + 1] ELSE @]

\* remember_event, up to the save
Remember(m, e) ==
    LET st == Append(m.data.short_term, e)
    IN  [m EXCEPT !.data =
           UpdateLongTerm(
               [m.data EXCEPT !.short_term =
                   IF Len(st) > m.short_term_limit
                   THEN LastSlice(st, m.short_term_limit) ELSE st],
               e)]

-----------------------------------------------------------------------------
(* main.py : agent_route and _bg_send_responders *)

\* the background task queued for every decision that is not ignored
QueuesRespondersUnlessIgnore(d) == Get(d, "action", "None") # "ignore"

\* if decision.get("action") == "alert": background_tasks.add_task(...)
QueuesResponders(d) == Get(d, "action", "None") = "alert"

\* the text posted to the chat webhook
SlackText(d) ==
    [type |-> Get(d, "type", "None"), action |-> Get(d, "action", "None"),
     combined_score |-> Get(d, "combined_score", 0),
     reason |-> Get(d, "reason", PyNone)]

\* an invocation of a notifier: its channel, what it was handed, and
\* whether the delivery succeeded
Notification(channel, payload, ok) ==
    [channel |-> channel, payload |-> payload, ok |-> ok]

\* raise HTTPException(status_code=500, detail=str(e))
ServerError(e) == [status |-> 500, detail |-> e]

-----------------------------------------------------------------------------
(* State machine *)

\* Settings a branch does not read are held at FALSE.
EnvsFor(b) ==
    [enable_hibp : IF b.type = "password" THEN BOOLEAN ELSE {FALSE},
     lm          : IF b.type = "text" THEN BOOLEAN ELSE {FALSE},
     vt_key      : IF b.type = "url" THEN BOOLEAN ELSE {FALSE}]

\* hibp_count = None
NoLookup == [called |-> FALSE, count |-> 0]

\* hibp_count = self._hibp_k_anonymity(sha1)
Lookup(count) == [called |-> TRUE, count |-> count]

\* the process after start-up: an empty events table, a fresh memory
\* store, no request answered yet
InitAgent(limits) ==
    /\ apc = "route"
    /\ bg = "idle"
    /\ db = EmptyDb
    /\ got = PyNone
    /\ logged = <<>>
    /\ mem \in {FreshStore(l) : l \in limits}
    /\ disk = FreshData
    /\ seen = <<>>
    /\ notified = {}
    /\ response = NoResult

InitStore(bodies, limits) ==
    /\ body \in bodies
    /\ env \in EnvsFor(body)
    /\ pc = "start"
    /\ called = {}
    /\ attempts = 0
    /\ backoff = InitBackoff
    /\ hist = <<>>
    /\ nreq = 0
    /\ last = "none"
    /\ req_exc = "none"
    /\ submit = NoResp
    /\ analysis = NoResp
    /\ polls = 0
    /\ url_obj = NoResp
    /\ exc = "none"
    /\ result = NoResult
    /\ hibp = NoLookup
    /\ now = 0
    /\ cache = EmptyCache
    /\ thr = [t \in Threads |-> Idle]
    /\ fetched = [p \in Prefixes |-> 0 - 1]
    /\ td = NoTrace
    /\ InitAgent(limits)

\* main.py builds KnowledgeStore with the default short_term_limit
InitWith(bodies) == InitStore(bodies, {DefaultShortTermLimit})

Init == InitWith(Bodies)

\* the locals of a fresh _request call
ResetRequest ==
    /\ attempts' = 0
    /\ backoff' = InitBackoff
    /\ hist' = <<>>
    /\ nreq' = 0

\* the coroutine is suspended in "await asyncio.sleep(wait)" with an
\* infinite wait: the timer never fires and _request takes no further step
Hung == hist # <<>> /\ hist[Len(hist)].slept = Forever

InRequest == pc \in {"submit", "poll", "fetch"} /\ ~Hung

\* t == "url": UrlAnalyzer() is built and scan_url entered
RouteUrl ==
    /\ pc = "start"
    /\ body.type = "url"
    /\ called' = called \cup {"url"}
    /\ pc' = "submit"
    /\ UNCHANGED <<env, body, attempts, backoff, hist, nreq, last, req_exc,
                   submit, analysis, polls, url_obj, exc, result, hibp, td, now>>
    /\ UNCHANGED hvars

\* t == "password": check_password, then the decision
RoutePassword ==
    /\ pc = "start"
    /\ body.type = "password"
    /\ called' = called \cup {"password"}
    /\ \E hc \in (IF env.enable_hibp THEN HibpCounts ELSE {0}) :
          /\ hibp' = IF env.enable_hibp THEN Lookup(hc) ELSE NoLookup
          /\ result' = PasswordDecision(
                           CheckPassword(body.pwd, env.enable_hibp, hc))
    /\ pc' = "done"
    /\ UNCHANGED <<env, body, attempts, backoff, hist, nreq, last, req_exc,
                   submit, analysis, polls, url_obj, exc, now, td>>
    /\ UNCHANGED hvars

\* t == "text": analyze_text, then the decision
RouteText ==
    /\ pc = "start"
    /\ body.type = "text"
    /\ called' = called \cup {"text"}
    /\ \E r \in (IF env.lm /\ ~body.text.blank THEN LmReplies
                 ELSE {NoReply}) :
          /\ result' = TextDecision(AnalyzeText(body.text, env.lm, r))
          /\ td' = Trace(body.text, env.lm, r)
    /\ pc' = "done"
    /\ UNCHANGED <<env, body, attempts, backoff, hist, nreq, last, req_exc,
                   submit, analysis, polls, url_obj, exc, hibp, now>>
    /\ UNCHANGED hvars

\* else: the routing-error marker
RouteUnknown ==
    /\ pc = "start"
    /\ body.type \notin KnownTypes
    /\ result' = UnknownType(body)
    /\ pc' = "done"
    /\ UNCHANGED <<env, body, called, attempts, backoff, hist, nreq, last,
                   req_exc, submit, analysis, polls, url_obj, exc, hibp, td, now>>
    /\ UNCHANGED hvars

-----------------------------------------------------------------------------
(* scan_url: submit -> poll -> fetch, each through _request *)

\* what the service's JSON replies carry in the main specification
SubmitTallies == {<<0, 0, 0, 0>>, <<1, 0, 3, 0>>}
PollTallies == {<<0, 0, 0, 0>>, <<3, 0, 1, 0>>}

\* what _get_analysis returns: a JSON object with or without
\* data.attributes.status == "completed", or the empty object {}
PollReplies ==
    {Resp(FALSE, c, t) : c \in BOOLEAN, t \in PollTallies} \cup {NoResp}
ScanTallies ==
    {<<0, 0, 0, 0>>, <<2, 1, 5, 10>>, <<0, 1, 3, 0>>, <<1, 0, 4, 0>>,
     <<1, 0, 1, 0>>, <<3, 0, 1, 0>>, <<19, 0, 81, 0>>, <<49, 0, 51, 0>>}

\* An exception leaves _request (or resp.json()).  In _submit_url and
\* _get_analysis nothing catches it: it leaves scan_url and
\* route_and_decide.  Around _get_url_object, "except Exception" takes the
\* fallback object and scan_url returns its findings.
Propagate(kind) ==
    IF pc = "fetch"
    THEN /\ url_obj' = Fallback(analysis, submit)
         /\ result' = UrlDecision(body,
                                  ScanFindings(Fallback(analysis, submit)))
         /\ pc' = "done"
         /\ exc' = "none"
    ELSE /\ pc' = "raised"
         /\ exc' = kind
         /\ UNCHANGED <<url_obj, result>>

\* resp.status_code == 429
ReqRateLimited(o, ra) ==
    /\ InRequest
    /\ StatusClass(o) = "rate_limited"
    /\ nreq' = nreq + 1
    /\ last' = o
    /\ IF ra = "date"
       THEN \* float(retry_after) raises ValueError, caught by no clause
            /\ req_exc' = "ValueError"
            /\ Propagate("ValueError")
            /\ UNCHANGED <<attempts, backoff, hist, now>>
       ELSE \* await asyncio.sleep(wait), before the counter is touched
            /\ hist' = Append(hist, [ev |-> "429", hdr |-> (ra # "none"),
                                     slept |-> RateLimitWait(ra, backoff)])
            /\ now' = Sleep(now, RateLimitWait(ra, backoff))
            /\ IF ra = "inf"
               THEN UNCHANGED <<backoff, attempts, req_exc, pc, exc, url_obj,
                                result>>
               ELSE /\ backoff' = RateLimitBackoff(backoff)
                    /\ attempts' = attempts + 1
                    /\ IF RateLimitExhausted(attempts + 1)
                       THEN /\ req_exc' = "HTTPStatusError"
                            /\ Propagate("HTTPStatusError")
                       ELSE UNCHANGED <<req_exc, pc, exc, url_obj, result>>
    /\ UNCHANGED <<env, body, called, submit, analysis, polls, hibp, td>>
    /\ UNCHANGED hvars

\* resp.raise_for_status() raises; "except httpx.HTTPStatusError: raise"
ReqHttpError(o) ==
    /\ InRequest
    /\ StatusClass(o) = "http_error"
    /\ nreq' = nreq + 1
    /\ last' = o
    /\ req_exc' = "HTTPStatusError"
    /\ Propagate("HTTPStatusError")
    /\ UNCHANGED <<env, body, called, attempts, backoff, hist, submit,
                   analysis, polls, hibp, td, now>>
    /\ UNCHANGED hvars

\* except (httpx.RequestError, asyncio.TimeoutError)
ReqNetworkError(o) ==
    /\ InRequest
    /\ StatusClass(o) = "network_error"
    /\ nreq' = nreq + 1
    /\ last' = o
    /\ attempts' = attempts + 1
    /\ IF NetworkExhausted(attempts + 1)
       THEN /\ hist' = Append(hist, [ev |-> "net", hdr |-> FALSE,
                                     slept |-> 0 - 1])
            /\ req_exc' = "RequestError"
            /\ Propagate("RequestError")
            /\ UNCHANGED <<backoff, now>>
       ELSE /\ hist' = Append(hist, [ev |-> "net", hdr |-> FALSE,
                                     slept |-> NetworkWait(backoff)])
            /\ now' = Sleep(now, NetworkWait(backoff))
            /\ backoff' = NetworkBackoff(backoff)
            /\ UNCHANGED <<req_exc, pc, exc, url_obj, result>>
    /\ UNCHANGED <<env, body, called, submit, analysis, polls, hibp, td>>
    /\ UNCHANGED hvars

\* _submit_url returns: submit = resp.json(); analysis_id = data.id
SubmitReturn(o) ==
    /\ pc = "submit"
    /\ StatusClass(o) = "success"
    /\ last' = o
    /\ \E id \in BOOLEAN, t \in SubmitTallies :
          /\ submit' = Resp(id, FALSE, t)
          /\ pc' = AfterSubmit(id)
    /\ ResetRequest
    /\ UNCHANGED <<env, body, called, req_exc, analysis, polls, url_obj,
                   exc, result, hibp, td, now>>
    /\ UNCHANGED hvars

\* _get_analysis returns inside "for i in range(max_polls)"
PollReturn(o) ==
    /\ pc = "poll"
    /\ StatusClass(o) = "success"
    /\ last' = o
    /\ polls' = polls + 1
    /\ \E r \in PollReplies :
          /\ analysis' = r
          /\ pc' = AfterPoll(r.completed, polls + 1)
          \* await asyncio.sleep(poll_interval), unless the loop was left
          /\ now' = IF r.completed THEN now ELSE Sleep(now, PollInterval)
    /\ ResetRequest
    /\ UNCHANGED <<env, body, called, req_exc, submit, url_obj, exc, result,
                   hibp, td>>
    /\ UNCHANGED hvars

\* _get_url_object returns: the findings are computed and the decision made
FetchReturn(o, tallies) ==
    /\ pc = "fetch"
    /\ StatusClass(o) = "success"
    /\ last' = o
    /\ \E t \in tallies :
          /\ url_obj' = Resp(FALSE, FALSE, t)
          /\ result' = UrlDecision(body, ScanFindings(Resp(FALSE, FALSE, t)))
    /\ pc' = "done"
    /\ ResetRequest
    /\ UNCHANGED <<env, body, called, req_exc, submit, analysis, polls, exc,
                   hibp, td, now>>
    /\ UNCHANGED hvars

\* a 2xx reply whose body is not JSON: resp.json() raises
BadJson(o) ==
    /\ InRequest
    /\ StatusClass(o) = "success"
    /\ nreq' = nreq + 1
    /\ last' = o
    /\ Propagate("JSONDecodeError")
    /\ UNCHANGED <<env, body, called, attempts, backoff, hist, req_exc,
                   submit, analysis, polls, hibp, td, now>>
    /\ UNCHANGED hvars

Next ==
    \/ RouteUrl
    \/ RoutePassword
    \/ RouteText
    \/ RouteUnknown
    \/ \E o \in ServiceOutcomes(env.vt_key), ra \in RetryAfterKinds :
          ReqRateLimited(o, ra)
    \/ \E o \in ServiceOutcomes(env.vt_key) : ReqHttpError(o)
    \/ \E o \in ServiceOutcomes(env.vt_key) : ReqNetworkError(o)
    \/ \E o \in ServiceOutcomes(env.vt_key) : SubmitReturn(o)
    \/ \E o \in ServiceOutcomes(env.vt_key) : PollReturn(o)
    \/ \E o \in ServiceOutcomes(env.vt_key) : FetchReturn(o, ScanTallies)
    \/ \E o \in ServiceOutcomes(env.vt_key) : BadJson(o)

Spec == Init /\ [][Next]_vars

-----------------------------------------------------------------------------
(* The scoring of scan_url over all vote tallies: scan_url stands at the   *)
(* fetch of the URL object (submit answered without an analysis id) and    *)
(* the fetch returns any tally up to MaxVotes, or the test fixture.        *)

Fixture == <<2, 1, 5, 10>>

ScoreTallies ==
    {Fixture} \cup
    {<<m, s, h, u>> : m \in 0..MaxVotes, s \in 0..MaxVotes,
                      h \in 0..MaxVotes, u \in 0..MaxVotes}

InitScore ==
    /\ body \in UrlBodies
    /\ env \in {e \in EnvsFor(body) : e.vt_key}
    /\ pc = "fetch"
    /\ called = {"url"}
    /\ attempts = 0
    /\ backoff = InitBackoff
    /\ hist = <<>>
    /\ nreq = 0
    /\ last = "2xx"
    /\ req_exc = "none"
    /\ submit = Resp(FALSE, FALSE, <<0, 0, 0, 0>>)
    /\ analysis = NoResp
    /\ polls = 0
    /\ url_obj = NoResp
    /\ exc = "none"
    /\ result = NoResult
    /\ hibp = NoLookup
    /\ now = 0
    /\ cache = EmptyCache
    /\ thr = [t \in Threads |-> Idle]
    /\ fetched = [p \in Prefixes |-> 0 - 1]
    /\ td = NoTrace
    /\ InitAgent({DefaultShortTermLimit})

NextScore == \E o \in Outcomes : FetchReturn(o, ScoreTallies)

SpecScore == InitScore /\ [][NextScore]_vars

-----------------------------------------------------------------------------
(* Concurrent breach lookups: each thread of the pool runs                  *)
(* _hibp_k_anonymity for a digest; the module-level dict _HIBP_CACHE is     *)
(* shared.  A dict read or store is one step (they are atomic in CPython);  *)
(* the thread is suspended while requests.get is in flight.                 *)

rvars == <<env, body, pc, called, attempts, backoff, hist, nreq, last,
           req_exc, submit, analysis, polls, url_obj, exc, result, hibp, td,
           avars>>

InitHibp ==
    /\ InitWith({b \in PasswordBodies : b.pwd = EmptyPwd})
    /\ env.enable_hibp

\* now = time.time(); cached = _HIBP_CACHE.get(prefix); a fresh entry
\* answers the lookup, otherwise requests.get(url) is sent
LookupStart(t, d) ==
    /\ thr[t].pc = "idle"
    /\ LET e == cache[CacheKey(d)]
       IN  thr' = [thr EXCEPT ![t] =
                IF Fresh(e, now)
                THEN [pc |-> "done", digest |-> d, t0 |-> 0, sent |-> "none",
                      used |-> e.body, ret |-> CountIn(e.body, d.suffix)]
                ELSE [pc |-> "fetch", digest |-> d, t0 |-> now,
                      sent |-> RangeRequest(d), used |-> NoBody, ret |-> 0]]
    /\ UNCHANGED <<cache, fetched, now>>
    /\ UNCHANGED rvars

\* status_code != 200, or requests.get raised: return -1
LookupFail(t) ==
    /\ thr[t].pc = "fetch"
    /\ thr' = [thr EXCEPT ![t] = [@ EXCEPT !.pc = "done", !.t0 = 0,
                                            !.ret = 0 - 1]]
    /\ UNCHANGED <<cache, fetched, now>>
    /\ UNCHANGED rvars

\* a 200 reply: body = resp.text; _HIBP_CACHE[prefix] = {"ts": now, "body":
\* body} with the "now" read before the request; then the count is read
LookupReply(t) ==
    /\ thr[t].pc = "fetch"
    /\ \E b \in RangeBodies(thr[t].sent) :
          /\ cache' = [cache EXCEPT ![CacheKey(thr[t].digest)] =
                                       Entry(thr[t].t0, b)]
          /\ thr' = [thr EXCEPT ![t] =
                        [@ EXCEPT !.pc = "done", !.t0 = 0, !.used = b,
                                  !.ret = CountIn(b, thr[t].digest.suffix)]]
    /\ fetched' = [fetched EXCEPT ![thr[t].digest.prefix] =
                                     Max(@, thr[t].t0)]
    /\ UNCHANGED now
    /\ UNCHANGED rvars

\* check_password goes on with the returned count; the thread is free again
LookupReturn(t) ==
    /\ thr[t].pc = "done"
    /\ thr' = [thr EXCEPT ![t] = Idle]
    /\ UNCHANGED <<cache, fetched, now>>
    /\ UNCHANGED rvars

\* a second passes
Tick ==
    /\ now < MaxTime
    /\ now' = now + 1
    /\ UNCHANGED <<cache, fetched, thr>>
    /\ UNCHANGED rvars

NextHibp ==
    \/ \E t \in Threads, d \in Digests : LookupStart(t, d)
    \/ \E t \in Threads : LookupFail(t)
    \/ \E t \in Threads : LookupReply(t)
    \/ \E t \in Threads : LookupReturn(t)
    \/ Tick

SpecHibp == InitHibp /\ [][NextHibp]_vars

-----------------------------------------------------------------------------
(* agent_route: the decision is logged, remembered and answered; the      *)
(* notifiers run in a background task after the response                  *)

\* the request bodies followed through agent_route
AgentBodies ==
    UrlBodies \cup UnknownBodies
    \cup {b \in PasswordBodies :
             /\ b.pwd.len \in {1, MaxPwdLen}
             /\ b.pwd.lower /\ ~b.pwd.upper /\ ~b.pwd.digit}
    \cup {b \in TextBodies :
             /\ b.text.nurls <= 1 /\ b.text.excl = 0
             /\ b.text.sens \in {0, 3}}

\* what outlives the call of route_and_decide: the request, the returned
\* value or the exception, the clock, and the process-wide state
dvars == <<env, body, pc, called, exc, result, now, cache, thr, fetched>>

\* the locals of scan_url, _request, check_password and analyze_text are
\* gone when route_and_decide has returned or raised
ForgetLocals ==
    /\ attempts' = 0
    /\ backoff' = InitBackoff
    /\ hist' = <<>>
    /\ nreq' = 0
    /\ last' = "none"
    /\ req_exc' = "none"
    /\ submit' = NoResp
    /\ analysis' = NoResp
    /\ polls' = 0
    /\ url_obj' = NoResp
    /\ hibp' = NoLookup
    /\ td' = NoTrace

\* the locals of route_and_decide, after it
lvars == <<attempts, backoff, hist, nreq, last, req_exc, submit, analysis,
           polls, url_obj, hibp, td>>

\* 1) db_logger.log_event(decision), best-effort: an exception of the
\* database (ok = FALSE) is logged and nothing is written
LogEvent(ok) ==
    /\ pc = "done"
    /\ apc = "route"
    /\ IF ok
       THEN /\ db' = LogEventDb(db, result)
            /\ logged' = Append(logged, [d |-> result, deleted |-> FALSE])
       ELSE UNCHANGED <<db, logged>>
    /\ apc' = "logged"
    /\ ForgetLocals
    /\ UNCHANGED <<bg, got, mem, disk, seen, notified, response>>
    /\ UNCHANGED dvars

\* 2) memory_store.remember_event(decision), best-effort: when the save
\* raises (ok = FALSE) the data in memory is updated and the file is not
RememberEvent(ok) ==
    /\ apc = "logged"
    /\ mem' = Remember(mem, result)
    /\ seen' = Append(seen, result)
    /\ disk' = IF ok THEN Remember(mem, result).data ELSE disk
    /\ apc' = "remembered"
    /\ UNCHANGED <<bg, db, got, logged, notified, response>>
    /\ UNCHANGED <<dvars, lvars>>

\* 3) the background task is queued if the action is alert; return decision
Respond ==
    /\ apc = "remembered"
    /\ bg' = IF QueuesResponders(result) THEN "slack" ELSE "idle"
    /\ response' = result
    /\ apc' = "returned"
    /\ UNCHANGED <<db, got, logged, mem, disk, seen, notified>>
    /\ UNCHANGED <<dvars, lvars>>

\* except Exception: raise HTTPException(status_code=500, detail=str(e))
RouteFailed ==
    /\ pc = "raised"
    /\ apc = "route"
    /\ response' = ServerError(exc)
    /\ apc' = "failed"
    /\ ForgetLocals
    /\ UNCHANGED <<bg, db, got, logged, mem, disk, seen, notified>>
    /\ UNCHANGED dvars

\* _bg_send_responders, run after the response was sent.  Each notifier is
\* invoked if it is configured; its failure (ok = FALSE) is caught and
\* logged and the next one runs.
SendSlack(configured, ok) ==
    /\ apc = "returned"
    /\ bg = "slack"
    /\ notified' = IF configured
                   THEN notified \cup
                        {Notification("slack", SlackText(result), ok)}
                   ELSE notified
    /\ bg' = "email"
    /\ UNCHANGED <<apc, db, got, logged, mem, disk, seen, response>>
    /\ UNCHANGED <<dvars, lvars>>

\* email: smtp_host and ALERT_EMAIL_TO set and action == "alert";
\* the body is str(decision)
SendEmail(configured, ok) ==
    /\ apc = "returned"
    /\ bg = "email"
    /\ notified' = IF configured /\ Get(result, "action", "None") = "alert"
                   THEN notified \cup {Notification("email", result, ok)}
                   ELSE notified
    /\ bg' = "n8n"
    /\ UNCHANGED <<apc, db, got, logged, mem, disk, seen, response>>
    /\ UNCHANGED <<dvars, lvars>>

\* n8n_responder.trigger_workflow(decision): posts the decision if a
\* webhook URL is configured
SendN8n(configured, ok) ==
    /\ apc = "returned"
    /\ bg = "n8n"
    /\ notified' = IF configured
                   THEN notified \cup {Notification("n8n", result, ok)}
                   ELSE notified
    /\ bg' = "finished"
    /\ UNCHANGED <<apc, db, got, logged, mem, disk, seen, response>>
    /\ UNCHANGED <<dvars, lvars>>

InitAgentRoute == InitWith(AgentBodies)

NextAgent ==
    \/ Next
    \/ \E ok \in BOOLEAN : LogEvent(ok)
    \/ \E ok \in BOOLEAN : RememberEvent(ok)
    \/ Respond
    \/ RouteFailed
    \/ \E configured \in BOOLEAN, ok \in BOOLEAN : SendSlack(configured, ok)
    \/ \E configured \in BOOLEAN, ok \in BOOLEAN : SendEmail(configured, ok)
    \/ \E configured \in BOOLEAN, ok \in BOOLEAN : SendN8n(configured, ok)

SpecAgent == InitAgentRoute /\ [][NextAgent]_vars

-----------------------------------------------------------------------------
(* The events table on its own: decisions are logged, read back by id or  *)
(* through the latest events, and deleted, in any order.                   *)

TheUrlBody == CHOOSE b \in UrlBodies : TRUE

\* Decisions of the three kinds, two of them with combined_score 0
DbDecisions ==
    {UrlDecision(TheUrlBody, ScanFindings(Resp(FALSE, FALSE, <<0, 0, 0, 0>>))),
     UrlDecision(TheUrlBody, ScanFindings(Resp(FALSE, FALSE, <<3, 0, 1, 0>>))),
     PasswordDecision(CheckPassword(EmptyPwd, FALSE, 0)),
     TextDecision(AnalyzeText(NoFeatures, FALSE, NoReply))}

\* the route variables and the other collaborators, idle
idlevars == <<dvars, lvars, apc, bg, mem, disk, seen, notified, response>>

InitDb == InitWith({TheUrlBody}) /\ ~env.vt_key

\* db_logger.log_event(d) returns the new id
DbLog(d) ==
    /\ db.seq < MaxRows
    /\ db' = LogEventDb(db, d)
    /\ logged' = Append(logged, [d |-> d, deleted |-> FALSE])
    /\ got' = [op |-> "log_event", arg |-> 0,
               value |-> LogEventDb(db, d).seq]
    /\ UNCHANGED idlevars

\* GET /events/{event_id}
DbGetEvent(id) ==
    /\ got' = [op |-> "get_event", arg |-> id, value |-> GetEvent(db, id)]
    /\ UNCHANGED <<db, logged>>
    /\ UNCHANGED idlevars

\* GET /events?limit=
DbGetLastEvents(limit) ==
    /\ got' = [op |-> "get_last_events", arg |-> limit,
               value |-> GetLastEvents(db, limit)]
    /\ UNCHANGED <<db, logged>>
    /\ UNCHANGED idlevars

\* DELETE /events/{event_id}
DbDeleteEvent(id) ==
    /\ db' = DeleteEvent(db, id)
    /\ got' = [op |-> "delete_event", arg |-> id,
               value |-> (GetEvent(db, id) # PyNone)]
    /\ logged' = [i \in 1..Len(logged) |->
                     IF i = id THEN [logged[i] EXCEPT !.deleted = TRUE]
                     ELSE logged[i]]
    /\ UNCHANGED idlevars

NextDb ==
    \/ \E d \in DbDecisions : DbLog(d)
    \/ \E id \in 1..(MaxRows + 1) : DbGetEvent(id)
    \/ \E limit \in {0, 1, 2} : DbGetLastEvents(limit)
    \/ \E id \in 1..(MaxRows + 1) : DbDeleteEvent(id)

SpecDb == InitDb /\ [][NextDb]_vars

-----------------------------------------------------------------------------
(* The memory store on its own: a fresh KnowledgeStore with a              *)
(* short_term_limit of 0..MaxLimit is handed up to MaxEvents events.       *)

\* a URL decision with score 70, a password decision with score 100 and
\* the routing-error marker, an event without a combined_score
MemEvents ==
    {UrlDecision(TheUrlBody, ScanFindings(Resp(FALSE, FALSE, <<7, 0, 3, 0>>))),
     PasswordDecision(CheckPassword(EmptyPwd, FALSE, 0)),
     UnknownType([TheUrlBody EXCEPT !.type = "image"])}

InitMem ==
    /\ InitStore({TheUrlBody}, 0..MaxLimit)
    /\ ~env.vt_key

\* memory_store.remember_event(e), the save included
MemRemember(e) ==
    /\ Len(seen) < MaxEvents
    /\ mem' = Remember(mem, e)
    /\ disk' = Remember(mem, e).data
    /\ seen' = Append(seen, e)
    /\ UNCHANGED <<dvars, lvars, apc, bg, db, got, logged, notified,
                   response>>

NextMem == \E e \in MemEvents : MemRemember(e)

SpecMem == InitMem /\ [][NextMem]_vars

-----------------------------------------------------------------------------
(* Claims *)

Decided == pc = "done" /\ body.type \in KnownTypes

\* The policy table of the decision engine, as the specification states it.
PolicyAction(kind, f) ==
    CASE kind = "url" ->
            IF f.risk_score >= 50 THEN "alert"
            ELSE IF 20 <= f.risk_score /\ f.risk_score < 50 THEN "log"
            ELSE "ignore"
      [] kind = "password" ->
            IF f.compromised = "True" THEN "alert"
            ELSE IF f.risk_score > 60 THEN "log"
            ELSE "ignore"
      [] kind = "text" ->
            IF f.risk_score >= 60 \/ f.label = "malicious" THEN "alert"
            ELSE IF f.risk_score >= 30 THEN "log"
            ELSE "ignore"

\* C1: for every kind and every findings value the returned action is the
\* one the policy table gives for (kind, score, compromised / label), and
\* combined_score is the analyzer's risk_score.
C1_ActionFollowsPolicy ==
    Decided =>
        /\ result.type = body.type
        /\ result.action = PolicyAction(body.type, result.analyzer)
        /\ result.combined_score = result.analyzer.risk_score

\* a text the analyzer labels malicious with a score under 60 is alerted
C1_Witness ==
    /\ Decided
    /\ body.type = "text"
    /\ result.analyzer.label = "malicious"
    /\ result.analyzer.risk_score < 60
    /\ result.action = "alert"

\* C2: a body whose type is not url, password or text (or is missing) calls
\* no analyzer and is answered with the routing-error marker, which carries
\* no action and no combined_score; route_and_decide does not raise on it.
C2_UnknownTypeIsRoutingError ==
    body.type \notin KnownTypes =>
        /\ called = {}
        /\ pc \in {"start", "done"}
        /\ pc = "done" =>
              /\ "error" \in DOMAIN result
              /\ result.error = "unknown_type"
              /\ "action" \notin DOMAIN result
              /\ "combined_score" \notin DOMAIN result

\* a body without a type key has been answered with the marker
C2_Witness ==
    /\ pc = "done"
    /\ body.type = "None"
    /\ "error" \in DOMAIN result
    /\ called = {}

\* C3: every findings value an analyzer returns carries an integer
\* risk_score between 0 and 100, on every path.
C3_RiskScoreInRange ==
    Decided => result.analyzer.risk_score \in 0..100

\* a clean password of more than 80 bits of entropy scores 0
C3_Witness ==
    /\ Decided
    /\ body.type = "password"
    /\ EntropyMicro(body.pwd) > 80 * 1000000
    /\ result.analyzer.pwned_count = 0
    /\ ~result.analyzer.common_password
    /\ result.analyzer.risk_score = 0

\* C4: for a well-formed tagged input route_and_decide never raises,
\* whatever the external services answer.
C4_NeverRaises ==
    body.type \in KnownTypes => (pc # "raised" /\ exc = "none")

\* clamp(round(100 - entropy_bits / 80 * 100), 0, 100), entropy in
\* millionths of a bit
C5_EntropyScore(e) == Clamp(RoundHalfEven(80000000 - e, 800000))

\* C5: risk_score and compromised of check_password are the policy function
\* of (breach count, entropy_bits, is_common): count > 0 gives 100 and true;
\* count = 0 gives false and the clamped entropy score, at least 85 for a
\* common password; count = -1 gives null and 70.
C5_PasswordPolicy ==
    (Decided /\ body.type = "password") =>
        LET f == result.analyzer
            e == EntropyMicro(body.pwd)
        IN  /\ f.pwned_count > 0 =>
                 (f.risk_score = 100 /\ f.compromised = "True")
            /\ f.pwned_count = 0 =>
                 /\ f.compromised = "False"
                 /\ f.risk_score = IF body.pwd.common
                                   THEN Max(C5_EntropyScore(e), 85)
                                   ELSE C5_EntropyScore(e)
            /\ f.pwned_count = 0 - 1 =>
                 (f.risk_score = 70 /\ f.compromised = "None")

\* a clean common password whose entropy score is under 85 scores 85
C5_Witness ==
    /\ Decided
    /\ body.type = "password"
    /\ body.pwd.common
    /\ result.analyzer.pwned_count = 0
    /\ C5_EntropyScore(EntropyMicro(body.pwd)) < 85
    /\ result.analyzer.risk_score = 85

\* the integer nearest to num/den, a half going up
RoundHalfUp(num, den) == (2 * num + den) \div (2 * den)

\* C6: for all vote tallies the risk_score of scan_url is
\* round(100 * (m + 0.5 s) / max(1, m + s + h + u)) clamped to [0, 100],
\* also where the value before rounding is exactly a half (round taken
\* with either convention for a half: to the even neighbour, or up); the
\* all-zero tally scores 0 and the fixture (2,1,5,10) scores 14, action
\* ignore.
C6_ScoreIsRoundedRatio ==
    (Decided /\ body.type = "url") =>
        LET t   == url_obj.stats
            num == 100 * (2 * t[1] + t[2])
            den == 2 * Max(1, t[1] + t[2] + t[3] + t[4])
            rs  == result.analyzer.risk_score
        IN  /\ rs \in {Clamp(RoundHalfEven(num, den)),
                       Clamp(RoundHalfUp(num, den))}
            /\ t = <<0, 0, 0, 0>> => rs = 0
            /\ t = Fixture => (rs = 14 /\ result.action = "ignore")

\* failures of kind ev in the current call that were followed by a retry:
\* the failure a call was abandoned on is the last one and was not retried
Retries(ev) ==
    Cardinality({i \in 1..Len(hist) :
                    /\ hist[i].ev = ev
                    /\ (req_exc = "none" \/ i < Len(hist))})

\* the call gave up retrying: the last 429 or network error was re-raised
Abandoned ==
    \/ req_exc = "RequestError"
    \/ (req_exc = "HTTPStatusError" /\ last = "429")

\* C7: a call is abandoned only after 6 rate-limit retries or 5
\* network-error retries, for every sequence of responses, interleaved
\* ones included.
C7_SeparateRetryBudgets ==
    Abandoned =>
        (Retries("429") >= RateLimitRetries \/ Retries("net") >= NetworkRetries)

\* the backoff schedule 1, 2, 4, 8, 16, 16, ...
Schedule(i) == Min(2 ^ (i - 1), 16)

\* C8: within one call the i-th delay slept is the schedule value
\* min(2^(i-1), 16), on the 429 path and on the network-error path, unless
\* the 429 carried a Retry-After header, whose value is slept instead.
C8_BackoffSchedule ==
    \A i \in 1..Len(hist) :
        hist[i].slept # 0 - 1 =>
            IF hist[i].hdr THEN hist[i].slept \in {RetryAfterSecs, Forever}
            ELSE hist[i].slept = Schedule(i)

\* C9: a 5xx response is a transient failure: it is never propagated
\* without a 5xx having been retried, after a backoff sleep, in that call.
C9_ServerErrorRetried ==
    (last = "5xx" /\ req_exc # "none") =>
        \E i \in 1..Len(hist) : hist[i].ev = "5xx" /\ hist[i].slept >= 0

\* C10: a 4xx other than 429 makes _request raise HTTPStatusError at once:
\* the response adds no backoff sleep, and no request is issued after it.
C10_ClientErrorPropagates ==
    [][ /\ (nreq' = nreq + 1 /\ last' = "4xx") =>
              /\ req_exc' = "HTTPStatusError"
              /\ hist' = hist
              /\ ~InRequest'
        /\ last = "4xx" => UNCHANGED <<nreq, hist, last>> ]_vars

\* a 4xx was propagated after two or more retries in the same call
C10_Witness ==
    /\ last = "4xx"
    /\ req_exc = "HTTPStatusError"
    /\ Len(hist) >= 2
    /\ nreq = Len(hist) + 1

\* The rank of a position of scan_url in the protocol submit, poll, fetch.
PhaseRank(p) ==
    CASE p = "start" -> 0
      [] p = "submit" -> 1
      [] p = "poll" -> 2
      [] p = "fetch" -> 3
      [] OTHER -> 4

\* polling has ended: the submit response carried no analysis id, or a poll
\* returned status completed, or max_polls polls were made
PollingEnded ==
    \/ ~submit.id
    \/ analysis.completed
    \/ polls >= MaxPolls

\* C11: the phases of scan_url are strictly ordered.  scan_url is in the
\* poll phase only when the submit call has returned (with an analysis id),
\* in the fetch phase only when the submit call has returned and polling has
\* ended; no step goes back to an earlier phase, and the fetch phase, once
\* left, is left for the return of scan_url: _get_url_object is called at
\* most once per scan.
C11_PhasesOrdered ==
    /\ [](pc = "submit" => ~submit.present /\ polls = 0)
    /\ [](pc = "poll" => submit.present /\ submit.id /\ ~PollingEnded)
    /\ [](pc = "fetch" => submit.present /\ PollingEnded)
    /\ [][/\ PhaseRank(pc') >= PhaseRank(pc)
          /\ (pc = "fetch" => pc' \in {"fetch", "done"})
          /\ (pc' = "fetch" => pc \in {"submit", "poll", "fetch"})
          /\ (pc \in {"done", "raised"} => pc' = pc)]_vars

\* a scan that went through the three phases: polls were made and the fetch
\* returned
C11_Witness ==
    /\ pc = "done" /\ body.type = "url" /\ exc = "none"
    /\ polls > 1 /\ analysis.completed /\ last = "2xx"

\* C12: with an analysis id, at most max_polls polls are made and no poll
\* follows one that returned status completed; at the cap without status
\* completed scan_url is at the fetch or has returned findings, and never
\* raises from there; without an id no poll is made and scan_url goes from
\* the submit straight to the fetch.
C12_PollsBounded ==
    /\ [](polls <= MaxPolls)
    /\ [](pc = "poll" => submit.id /\ ~analysis.completed /\ polls < MaxPolls)
    /\ []((submit.present /\ ~submit.id) =>
              polls = 0 /\ ~analysis.present /\ pc \in {"fetch", "done"})
    /\ []((polls = MaxPolls /\ ~analysis.completed) =>
              /\ pc \in {"fetch", "done"}
              /\ (pc = "done" => exc = "none" /\ result.type = "url"))
    /\ [][(pc = "poll" /\ analysis'.completed) => pc' # "poll"]_vars

\* the cap was reached without status completed and scan_url returned
C12_Witness ==
    /\ pc = "done" /\ polls = MaxPolls /\ ~analysis.completed
    /\ exc = "none" /\ result.type = "url"

\* scan_url has returned after _get_url_object raised: the last _request
\* call ended on a failed request (a successful call leaves nreq at 0)
FetchFailed == pc = "done" /\ body.type = "url" /\ nreq > 0

\* C13 as stated: when the fetch of the URL object fails, scan_url does not
\* raise and its findings are computed from the last poll response if a
\* poll was made, and from the submit response otherwise.
C13_FallbackFromLastPoll ==
    FetchFailed =>
        /\ exc = "none"
        /\ result.analyzer =
               ScanFindings(IF polls > 0 THEN analysis ELSE submit)

\* C13, amended: when the fetch of the URL object fails, scan_url does not
\* raise and its findings are computed from the last poll response if a
\* poll was made and its reply was a non-empty object, and from the submit
\* response otherwise.
C13_FallbackFromPollOrSubmit ==
    FetchFailed =>
        LET src == IF polls > 0 /\ analysis.present THEN analysis ELSE submit
        IN  /\ exc = "none"
            /\ url_obj = src
            /\ result.type = "url"
            /\ result.analyzer = ScanFindings(src)

\* the fetch failed after a poll whose reply carries other tallies than the
\* submit response, and the findings are those of the poll
C13_Witness ==
    /\ FetchFailed
    /\ polls > 0 /\ analysis.present
    /\ analysis.stats # submit.stats
    /\ result.analyzer.malicious_votes = analysis.stats[1]

\* C14: a deadline of Deadline seconds given by the caller bounds scan_url:
\* every request scan_url issues (each step taken in a request phase is one
\* HTTP request) is issued before Deadline seconds of retries, backoff
\* sleeps and poll sleeps have passed.
C14_DeadlineBoundsScan == [][InRequest => now < Deadline]_vars

\* C15: without the credential of its service an analyzer issues no
\* outbound request and returns local findings without raising: no HTTP
\* response is ever received by the URL analyzer without an API key, the
\* text analyzer without a language-model key answers from the heuristic,
\* the password analyzer with the remote lookup disabled never calls it.
C15_NoCredentialNoRequest ==
    /\ (body.type = "url" /\ ~env.vt_key) =>
            /\ last = "none"
            /\ pc # "raised"
    /\ (body.type = "text" /\ ~env.lm /\ pc = "done") =>
            result.analyzer.reason # "lm"
    /\ (body.type = "password" /\ ~env.enable_hibp) => ~hibp.called

Started == {t \in Threads : thr[t].pc # "idle"}

\* a step in which thread t enters the lookup
Starts(t) == thr[t].pc = "idle" /\ thr'[t].pc # "idle"

\* The requests a lookup sends, as the k-anonymity protocol gives them from
\* the prefix p of the digest, the cache and the time alone.
RequestsFor(p, c, t) ==
    IF c[p].present /\ t - c[p].ts < CacheTtl THEN "none" ELSE p

\* C17: the remote lookup discloses the first 5 hex characters of the
\* digest and nothing else: what a lookup sends is determined by the prefix
\* of its digest (with the cache and the clock), so two digests with the
\* same prefix cause the same requests; a request sent is the prefix; and
\* the count is read locally from the returned body by the suffix.
C17_OnlyPrefixDisclosed ==
    /\ [](\A t \in Started :
            /\ thr[t].sent \in {"none", thr[t].digest.prefix}
            /\ (thr[t].pc = "fetch") => thr[t].sent = thr[t].digest.prefix
            /\ (thr[t].pc = "done" /\ thr[t].used # NoBody) =>
                   thr[t].ret = CountIn(thr[t].used, thr[t].digest.suffix))
    /\ [][\A t \in Threads :
            Starts(t) =>
                thr'[t].sent = RequestsFor(thr'[t].digest.prefix, cache, now)
         ]_vars

\* two lookups of digests with one prefix and different suffixes are in
\* flight with the same request
C17_Witness ==
    \E t, u \in Threads :
        /\ thr[t].pc = "fetch" /\ thr[u].pc = "fetch"
        /\ thr[t].digest.prefix = thr[u].digest.prefix
        /\ thr[t].digest.suffix # thr[u].digest.suffix
        /\ thr[t].sent = thr[u].sent

\* C18: after a successful fetch for prefix p at time fetched[p], a lookup
\* of p before fetched[p] + CacheTtl sends no request and is answered from
\* the cached body; a lookup at or after fetched[p] + CacheTtl sends a new
\* request and does not answer from the cache; a successful fetch replaces
\* the entry, a failed one leaves the cache as it is and returns -1.
C18_CacheTtl ==
    [][\A t \in Threads :
          LET p == thr'[t].digest.prefix
          IN  /\ (Starts(t) /\ fetched[p] >= 0
                             /\ now < fetched[p] + CacheTtl) =>
                     /\ thr'[t].sent = "none"
                     /\ thr'[t].pc = "done"
                     /\ thr'[t].used = cache[p].body
              /\ (Starts(t) /\ fetched[p] >= 0
                             /\ now >= fetched[p] + CacheTtl) =>
                     /\ thr'[t].sent = p
                     /\ thr'[t].pc = "fetch"
              /\ (thr[t].pc = "fetch" /\ thr'[t].pc = "done") =>
                     IF thr'[t].used = NoBody
                     THEN cache' = cache /\ thr'[t].ret = 0 - 1
                     ELSE cache'[p] = Entry(thr[t].t0, thr'[t].used)
      ]_vars

\* C19: under every interleaving of lookups the cache holds, under each
\* prefix p, nothing or a whole body the service returned for p with a time
\* of the past; an entry changes only by the store of a lookup of p, which
\* writes the body it received with its own time; and a lookup that has
\* returned gives -1 or the count of its own suffix in a body fetched for
\* its own prefix.
C19_CacheNotCorrupted ==
    /\ [](\A p \in Prefixes :
            cache[p].present =>
                /\ cache[p].body \in RangeBodies(p)
                /\ cache[p].ts \in 0..now)
    /\ [](\A t \in Threads :
            thr[t].pc = "done" =>
                \/ thr[t].ret = 0 - 1 /\ thr[t].used = NoBody
                \/ /\ thr[t].used \in RangeBodies(thr[t].digest.prefix)
                   /\ thr[t].ret = CountIn(thr[t].used, thr[t].digest.suffix))
    /\ [][\A p \in Prefixes :
            cache'[p] # cache[p] =>
                \E t \in Threads :
                    /\ thr[t].pc = "fetch" /\ thr'[t].pc = "done"
                    /\ thr[t].digest.prefix = p
                    /\ cache'[p] = Entry(thr[t].t0, thr'[t].used)
         ]_vars

\* both prefixes are cached while a lookup served from the cache has
\* returned and another thread has a request in flight
C19_Witness ==
    /\ \A p \in Prefixes : cache[p].present
    /\ \E t, u \in Threads :
          /\ thr[t].pc = "done" /\ thr[t].sent = "none"
          /\ thr[t].ret = MaxBreach
          /\ thr[u].pc = "fetch"

\* the text "FREE MONEY!!! click here http://bit.ly/x": one URL, the
\* keyword "click here", three exclamation marks, no sensitive phrase
ExampleText ==
    [blank |-> FALSE, nurls |-> 1, kw |-> TRUE, excl |-> 3, sens |-> 0]

\* the four terms of the heuristic score as the specification states them
TermU(t) == IF t.nurls = 0 THEN 0 ELSE Min(40, 15 + 5 * (t.nurls - 1))
TermK(t) == IF t.kw THEN 30 ELSE 0
TermE(t) == Min(10, 2 * t.excl)
TermS(t) == 10 * t.sens

\* C20: the heuristic score of every text is min(100, U + K + E + S), lies
\* in 0..100, is 0 for the empty string and 51 for the example text.
C20_HeuristicScore ==
    /\ SimplePhishScore(NoFeatures) = 0
    /\ SimplePhishScore(ExampleText) = 51
    /\ (pc = "done" /\ body.type = "text" /\ ~body.text.blank) =>
            LET t == body.text
                h == result.analyzer.heuristic_score
            IN  /\ h = Min(100, TermU(t) + TermK(t) + TermE(t) + TermS(t))
                /\ h \in 0..100
    /\ (pc = "done" /\ body.type = "text" /\ body.text.blank) =>
            result.analyzer.heuristic_score = 0

\* the example text was scored 51, and some text reached the clamp
C20_Witness ==
    /\ pc = "done" /\ body.type = "text"
    /\ body.text = ExampleText
    /\ result.analyzer.heuristic_score = 51
    /\ result.analyzer.reason = "heuristic"

\* the most HTTP requests one _request call can issue: the six retried 429
\* responses and the request after them
MaxRequests == RateLimitRetries + 1

\* C29: whatever the service answers, a single _request call terminates: it
\* issues at most 7 HTTP requests and then returns or raises, it is never
\* suspended for ever, and every request that neither ends the call nor
\* fails on the spot increases the retry counter, which never decreases
\* within the call.
C29_RequestTerminates ==
    /\ [](nreq <= MaxRequests)
    /\ [](InRequest => attempts = nreq /\ attempts <= RateLimitRetries)
    /\ [](~Hung)
    /\ [][InRequest /\ InRequest' /\ pc' = pc /\ polls' = polls =>
              attempts' = attempts + 1]_vars

\* C29 without the sleep: the bound on the requests and the retry counter
C29_RequestsBounded ==
    /\ [](nreq <= MaxRequests)
    /\ [](InRequest => attempts = nreq /\ attempts <= RateLimitRetries)
    /\ [][InRequest /\ InRequest' /\ pc' = pc /\ polls' = polls =>
              attempts' = attempts + 1]_vars

\* the tally of the URL object with the malicious count changed by d
MoreMalicious(t, d) == <<t[1] + d, t[2], t[3], t[4]>>

\* C24: for every vote tally with a vote in it the risk_score of scan_url
\* lies in [0, 100] and does not go down when the malicious count goes up
\* with the other three counts fixed: the tally with one more malicious
\* vote scores no less, the tally with one fewer no more.
C24_ScoreMonotoneInMalicious ==
    (Decided /\ body.type = "url" /\ last = "2xx") =>
        LET t  == url_obj.stats
            rs == result.analyzer.risk_score
        IN  (t[1] + t[2] + t[3] + t[4] > 0) =>
                /\ rs \in 0..100
                /\ rs = VtRiskScore(t)
                /\ VtRiskScore(MoreMalicious(t, 1)) >= rs
                /\ t[1] > 0 => VtRiskScore(MoreMalicious(t, 0 - 1)) <= rs

\* the tally (8, 7, 5, 0), whose ratio 0.575 is rounded down to 57, between
\* the scores of its two neighbours in the malicious count
C24_Witness ==
    /\ Decided /\ body.type = "url" /\ last = "2xx"
    /\ url_obj.stats = <<8, 7, 5, 0>>
    /\ result.analyzer.risk_score = 57
    /\ VtRiskScore(MoreMalicious(url_obj.stats, 1)) > 57
    /\ VtRiskScore(MoreMalicious(url_obj.stats, 0 - 1)) < 57

\* the order very_weak < weak < reasonable < strong
StrengthRank(l) ==
    CASE l = "very_weak" -> 0
      [] l = "weak" -> 1
      [] l = "reasonable" -> 2
      [] l = "strong" -> 3

\* the label the cut points 28, 40 and 60 give to entropy_bits (in
\* hundredths of a bit)
LabelByCuts(eb) ==
    IF eb < 2800 THEN "very_weak"
    ELSE IF eb < 4000 THEN "weak"
    ELSE IF eb < 6000 THEN "reasonable"
    ELSE "strong"

\* the passwords the checked one is compared with (membership in the local
\* breach set has no part in entropy_bits or strength)
Compared == {q \in Passwords : ~q.local}

\* C23 as stated: entropy_bits >= 0 for every password, and the strength
\* label is non-decreasing in entropy_bits over all passwords, those of the
\* common-password set included: a password with at least the entropy_bits
\* of the checked one has at least its label, one with at most its
\* entropy_bits at most its label.
C23_StrengthMonotone ==
    (Decided /\ body.type = "password") =>
        LET f == result.analyzer
        IN  /\ f.entropy_bits >= 0
            /\ \A q \in Compared :
                   LET g == CheckPassword(q, FALSE, 0)
                   IN  /\ g.entropy_bits >= f.entropy_bits =>
                             StrengthRank(g.strength) >= StrengthRank(f.strength)
                       /\ g.entropy_bits <= f.entropy_bits =>
                             StrengthRank(g.strength) <= StrengthRank(f.strength)

\* C23, amended: entropy_bits >= 0 for every password; a password of the
\* common-password set is very_weak whatever its entropy_bits; every other
\* password has the label of the cut points 28, 40 and 60, and among the
\* passwords outside the common-password set the label is non-decreasing in
\* entropy_bits.
C23_StrengthMonotoneOutsideCommon ==
    (Decided /\ body.type = "password") =>
        LET f == result.analyzer
        IN  /\ f.entropy_bits >= 0
            /\ body.pwd.common => f.strength = "very_weak"
            /\ ~body.pwd.common =>
                 /\ f.strength = LabelByCuts(f.entropy_bits)
                 /\ \A q \in {c \in Compared : ~c.common} :
                       LET g == CheckPassword(q, FALSE, 0)
                       IN  /\ g.entropy_bits >= f.entropy_bits =>
                                 StrengthRank(g.strength) >=
                                     StrengthRank(f.strength)
                           /\ g.entropy_bits <= f.entropy_bits =>
                                 StrengthRank(g.strength) <=
                                     StrengthRank(f.strength)

\* a password outside the common-password set with exactly 40 bits (eight
\* symbols) is labelled reasonable
C23_Witness ==
    /\ Decided /\ body.type = "password"
    /\ ~body.pwd.common
    /\ result.analyzer.entropy_bits = 4000
    /\ result.analyzer.strength = "reasonable"

\* analyze_text has returned for a text that is not blank
TextAnalyzed == Decided /\ body.type = "text" /\ ~body.text.blank

\* the result of the heuristic-only path for the text of the request
HeuristicOnly ==
    LET h == SimplePhishScore(body.text)
        f == result.analyzer
    IN  /\ f.risk_score = h
        /\ f.heuristic_score = h
        /\ f.nurls = body.text.nurls
        /\ f.label = (IF h >= 70 THEN "malicious"
                      ELSE IF h >= 35 THEN "suspicious" ELSE "benign")
        /\ f.reason = "heuristic"

\* C21 as stated: whenever the language-model path is unavailable or its
\* reply is a service error, a payload that cannot be parsed, a risk_score
\* that is not an integer or a label that is not a string, analyze_text
\* raises nothing and returns the result of the heuristic-only path.
C21_FallbackOnAnyFailure ==
    /\ (body.type = "text" => pc # "raised")
    /\ (TextAnalyzed /\ (~env.lm \/ td.outcome # "ok")) => HeuristicOnly

\* C21, amended: whenever the language-model path is unavailable or raises
\* (service error, a payload json.loads rejects, a risk_score int() cannot
\* convert, a label that is not a string), analyze_text raises nothing and
\* returns the result of the heuristic-only path; a risk_score int() can
\* convert (a number with a fraction, a numeric string) is no failure: the
\* result is the language model's, with the converted score.
C21_FallbackWhenCallRaises ==
    /\ (body.type = "text" => pc # "raised")
    /\ (TextAnalyzed /\ (~env.lm \/ td.outcome \notin {"ok", "converted"}))
           => HeuristicOnly
    /\ (TextAnalyzed /\ env.lm /\ td.outcome = "converted") =>
           /\ result.analyzer.reason = "lm"
           /\ result.analyzer.risk_score \in 0..100
           /\ result.analyzer.heuristic_score = SimplePhishScore(body.text)

\* the language model answered with a risk_score int() raises on, for a
\* text whose heuristic score is 35: the label is suspicious
C21_Witness ==
    /\ TextAnalyzed /\ env.lm
    /\ td.lm_called /\ td.outcome = "badscore"
    /\ result.analyzer.risk_score = 35
    /\ result.analyzer.label = "suspicious"
    /\ result.analyzer.reason = "heuristic"

\* C22: for an empty, missing or whitespace-only text analyze_text returns
\* label benign, risk_score 0, no URLs and heuristic_score 0, and invokes
\* neither the language-model call nor the heuristic scorer, with or
\* without a language-model key.
C22_BlankShortCircuits ==
    (Decided /\ body.type = "text" /\ body.text.blank) =>
        /\ result.analyzer.label = "benign"
        /\ result.analyzer.risk_score = 0
        /\ result.analyzer.nurls = 0
        /\ result.analyzer.heuristic_score = 0
        /\ result.analyzer.reason = "empty input"
        /\ ~td.scored
        /\ ~td.lm_called

\* a blank text was analyzed with a language-model key configured
C22_Witness ==
    /\ Decided /\ body.type = "text" /\ body.text.blank
    /\ env.lm
    /\ result.analyzer.reason = "empty input"
    /\ result.action = "ignore"

\* the action of the value route_and_decide returned ("None": the
\* routing-error marker has none)
ActionOf(d) == Get(d, "action", "None")

\* C25: in every run of agent_route a notifier (chat webhook, email,
\* automation webhook) is invoked only if the decision's action is alert:
\* for log, ignore and the routing-error marker, and when the routing
\* raised, the background task is never queued and no notifier is called.
\* The notifiers run after the response was returned, and whatever they
\* do, fail or not, leaves the response as it was returned.
C25_NotifiersOnlyOnAlert ==
    /\ []((bg # "idle" \/ notified # {}) =>
              /\ pc = "done"
              /\ ActionOf(result) = "alert"
              /\ apc = "returned"
              /\ response = result)
    /\ [](apc = "failed" => bg = "idle" /\ notified = {})
    /\ [][(apc \in {"returned", "failed"}) =>
              (apc' = apc /\ response' = response)]_vars

\* the three notifiers were invoked for an alert, one of them failed, and
\* the caller has the decision
C25_Witness ==
    /\ bg = "finished"
    /\ apc = "returned"
    /\ response = result
    /\ result.action = "alert"
    /\ {n.channel : n \in notified} = {"slack", "email", "n8n"}
    /\ \E n \in notified : ~n.ok

\* a finalized Decision: an action of the three, and no error marker
IsDecision(d) ==
    /\ "error" \notin DOMAIN d
    /\ ActionOf(d) \in {"alert", "log", "ignore"}
    /\ "combined_score" \in DOMAIN d

\* the finalized Decisions among the events handed to the memory store
DecisionsSeen == {i \in 1..Len(seen) : IsDecision(seen[i])}

\* C27: every record agent_route hands to log_event or to remember_event
\* is a finalized Decision with action alert, log or ignore; the
\* routing-error marker is never written as an event and never counted in
\* total_events or the average score.
C27_OnlyDecisionsStored ==
    /\ \A i \in 1..Len(logged) : IsDecision(logged[i].d)
    /\ \A i \in 1..Len(db.rows) : db.rows[i].action \in {"alert", "log", "ignore"}
    /\ \A i \in 1..Len(seen) : IsDecision(seen[i])
    /\ mem.data.total_events = Cardinality(DecisionsSeen)

\* a value holds the password of the request: the request body is part of
\* it
Exposes(v) == "body" \in DOMAIN v /\ v.body.pwd = body.pwd

\* C28: for a request body with a password field, whatever its type tag,
\* the password is in no record that leaves the call: not in the value
\* returned to the caller, not in the event written to storage, not in the
\* memory store or its file, not in a notification payload.
C28_PasswordNeverLeaves ==
    body.pwd # EmptyPwd =>
        /\ ~Exposes(response)
        /\ \A i \in 1..Len(db.rows) : ~Exposes(db.rows[i].data)
        /\ \A i \in 1..Len(mem.data.short_term) :
               ~Exposes(mem.data.short_term[i])
        /\ \A i \in 1..Len(disk.short_term) : ~Exposes(disk.short_term[i])
        /\ \A n \in notified : ~Exposes(n.payload)

\* C28 for the three known type tags
C28_KnownTypesKeepPassword ==
    body.type \in KnownTypes => C28_PasswordNeverLeaves

\* a row read from the events table carries the four fields of Decision d
SameFields(r, d) ==
    /\ r.type = d.type
    /\ r.score = d.combined_score
    /\ r.action = d.action
    /\ r.reason = d.reason

\* C26: a Decision logged with log_event is read back, by get_event on the
\* returned id and through get_last_events, with its type, combined_score
\* (0 included), action and reason; the ids returned are new ones; the
\* record is readable unchanged until delete_event is called on its id,
\* whatever is logged or deleted besides, and is gone afterwards;
\* get_last_events gives the latest rows, newest first.
C26_LoggedEventReadBack ==
    /\ \A id \in 1..Len(logged) :
           LET r == GetEvent(db, id)
           IN  IF logged[id].deleted THEN r = PyNone
               ELSE /\ r # PyNone
                    /\ r.id = id
                    /\ SameFields(r, logged[id].d)
                    /\ r.data = logged[id].d
    /\ ("op" \in DOMAIN got /\ got.op = "log_event") =>
           /\ got.value = Len(logged)
           /\ SameFields(GetEvent(db, got.value), logged[got.value].d)
    /\ ("op" \in DOMAIN got /\ got.op = "get_event") =>
           IF got.arg \in 1..Len(logged) /\ ~logged[got.arg].deleted
           THEN SameFields(got.value, logged[got.arg].d)
           ELSE got.value = PyNone
    /\ ("op" \in DOMAIN got /\ got.op = "get_last_events") =>
           LET live == {id \in 1..Len(logged) : ~logged[id].deleted}
               lim  == IF got.arg <= 0 THEN DefaultLimit ELSE got.arg
           IN  /\ Len(got.value) = Min(lim, Cardinality(live))
               /\ \A i \in 1..Len(got.value) :
                      /\ got.value[i].id \in live
                      /\ SameFields(got.value[i], logged[got.value[i].id].d)
                      /\ Cardinality({id \in live : id > got.value[i].id})
                             = i - 1

\* a decision with combined_score 0 is read back by its id after a later
\* event was logged and another one deleted
C26_Witness ==
    /\ "op" \in DOMAIN got /\ got.op = "get_event" /\ got.arg = 1
    /\ Len(logged) = MaxRows
    /\ logged[1].d.combined_score = 0 /\ ~logged[1].deleted
    /\ logged[2].deleted
    /\ got.value.score = 0 /\ got.value.action = "ignore"

RECURSIVE ScoreSum(_)
ScoreSum(q) ==
    IF q = <<>> THEN 0
    ELSE Get(q[Len(q)], "combined_score", 0) + ScoreSum(SubSeq(q, 1, Len(q) - 1))

\* C30, the parts about the stored events, the count and the file: after n
\* remember_event calls total_events is n, the file equals the data in
\* memory, and short_term is the whole history while it is no longer than
\* the limit.
MemoryKept ==
    /\ mem.data.total_events = Len(seen)
    /\ disk = mem.data
    /\ Len(seen) <= mem.short_term_limit => mem.data.short_term = seen

\* avg_risk_score is the binary64 nearest to the mean of the scores seen
MeanIsExact ==
    LET a == mem.data.avg_risk_score
    IN  /\ a.num * Max(1, Len(seen)) = ScoreSum(seen) * a.den
        /\ ~a.above

\* C30: after n remember_event calls on a fresh KnowledgeStore short_term
\* holds the most recent min(n, short_term_limit) events in arrival order,
\* never more than short_term_limit; total_events is n; avg_risk_score is
\* the arithmetic mean of the combined_score of the n events (0 for an
\* event without one); the counts of the frequency tables never decrease;
\* the file equals the data in memory.
C30_MemoryStatistics ==
    /\ [](LET n   == Len(seen)
              lim == mem.short_term_limit
          IN  /\ MemoryKept
              /\ Len(mem.data.short_term) <= lim
              /\ mem.data.short_term = SubSeq(seen, n - Min(n, lim) + 1, n)
              /\ MeanIsExact)
    /\ [][/\ \A u \in MemUrls :
                mem'.data.top_malicious_urls[u] >= mem.data.top_malicious_urls[u]
          /\ \A l \in StrengthLabels :
                mem'.data.password_weakness[l] >= mem.data.password_weakness[l]
         ]_vars

\* C30 where it holds: with a short_term_limit of at least 1 everything but
\* the exact mean, and the exact mean up to seven events
C30_WithPositiveLimit ==
    /\ [](mem.short_term_limit >= 1 =>
            LET n   == Len(seen)
                lim == mem.short_term_limit
            IN  /\ MemoryKept
                /\ Len(mem.data.short_term) <= lim
                /\ mem.data.short_term = SubSeq(seen, n - Min(n, lim) + 1, n)
                /\ (n <= 7 => MeanIsExact)
                /\ LET a == mem.data.avg_risk_score
                   IN  a.num * Max(1, n) = ScoreSum(seen) * a.den)
    /\ [][/\ \A u \in MemUrls :
                mem'.data.top_malicious_urls[u] >= mem.data.top_malicious_urls[u]
          /\ \A l \in StrengthLabels :
                mem'.data.password_weakness[l] >= mem.data.password_weakness[l]
         ]_vars

\* C30, the mean alone, with a short_term_limit of at least 1
C30_MeanDrifts == [](mem.short_term_limit >= 1 => MeanIsExact)

====
